---- MODULE Spec2Model ----
(***************************************************************************)
(* Sentiment classifier notebook: the dataset / data loader, the classifier *)
(* head, train, evaluate, the training loop and predict_sentiment.         *)
(*                                                                         *)
(* Numbers.  Tensors hold integers; a tensor that contains a non-finite    *)
(* float carries nan = TRUE (a non-finite value spreads through every      *)
(* affine layer, so one flag per tensor is exact).  Python floats (losses, *)
(* accuracies) are exact fractions <<n, d>> in lowest terms, and NaN is    *)
(* the fraction <<0, 0>>.  Cross-entropy is logsumexp(z) - z[label]; the   *)
(* model replaces logsumexp by max, and Adam's normalised step by one unit *)
(* step against the sign of the first moment.                              *)
(***************************************************************************)
EXTENDS Integers, Sequences, FiniteSets, TLC

\* ------------------------------------------------------------------ bounds
MaxN == 3          \* largest training dataset drawn from the corpus
MaxTestN == 4      \* largest test dataset drawn from the corpus
MaxCells == 3      \* top-level runs (cells / calls) in one session
MaxLen == 3        \* longest collection handed to SentimentDataset on its own
MaxBS == 3         \* batch sizes 1..MaxBS of a data loader on its own

\* ------------------------------------------------------- program constants
num_epochs == 2    \* epochs of the training loop
BatchSize == 2     \* batch_size of both data loaders in a session
RefBatchSize == 64 \* batch_size as the notebook sets it
hidden_dim == 1    \* width of the hidden layer
DropScale == 2     \* 1 / (1 - dropout_prob), dropout_prob = 0.5

\* --------------------------------------------------------------- numerics
Abs(x) == IF x < 0 THEN -x ELSE x
Sign(x) == IF x > 0 THEN 1 ELSE IF x < 0 THEN -1 ELSE 0
Max2(a, b) == IF a >= b THEN a ELSE b

RECURSIVE Gcd(_, _)
Gcd(a, b) == IF b = 0 THEN a ELSE Gcd(b, a % b)

NaN == <<0, 0>>
Zero == <<0, 1>>
One == <<1, 1>>
IsNaN(f) == f[2] = 0

\* the float n / d, d > 0
Frac(n, d) ==
  LET g == Gcd(Abs(n), d) IN <<n \div g, d \div g>>

FAdd(a, b) ==
  IF IsNaN(a) \/ IsNaN(b) THEN NaN
  ELSE Frac(a[1] * b[2] + b[1] * a[2], a[2] * b[2])

\* float / positive int
FDivInt(a, k) == IF IsNaN(a) THEN NaN ELSE Frac(a[1], a[2] * k)

FLeq(a, b) == ~IsNaN(a) /\ ~IsNaN(b) /\ a[1] * b[2] <= b[1] * a[2]

RECURSIVE SumSeq(_)
SumSeq(s) == IF s = <<>> THEN 0 ELSE Head(s) + SumSeq(Tail(s))

RECURSIVE FSum(_)
FSum(s) == IF s = <<>> THEN Zero ELSE FAdd(Head(s), FSum(Tail(s)))

\* the sequence with the elements of f, computed once
Tup(f) == f \o <<>>

Dot(a, b) == SumSeq(Tup([i \in 1..Len(a) |-> a[i] * b[i]]))

\* ------------------------------------------------------------ label table
sentiment_map == [negative |-> 0, neutral |-> 1, positive |-> 2]

sentiment_map_inv ==
  [v \in {sentiment_map[k] : k \in DOMAIN sentiment_map} |->
     CHOOSE k \in DOMAIN sentiment_map : sentiment_map[k] = v]

output_dim == Cardinality(DOMAIN sentiment_map)

\* ------------------------------------------------------- SentimentDataset
\* SentimentDataset.__init__: keeps the two collections as given
SentimentDataset(embeddings, labels) ==
  [embeddings |-> embeddings, labels |-> labels]

\* SentimentDataset.__len__
DatasetLen(ds) == Len(ds.embeddings)

PyIndexNoWrap(n, idx) ==
  IF 0 <= idx /\ idx < n THEN idx + 1 ELSE 0

\* Python / torch / iloc positional indexing of a collection of length n:
\* the 1-based position, or 0 for IndexError
PyIndex(n, idx) ==
  IF 0 <= idx /\ idx < n THEN idx + 1
  ELSE IF -n <= idx /\ idx < 0 THEN n + idx + 1
  ELSE 0

\* SentimentDataset.__getitem__
GetItem(ds, idx) ==
  LET ie == PyIndex(Len(ds.embeddings), idx)
      il == PyIndex(Len(ds.labels), idx)
  IN IF ie = 0 \/ il = 0
       THEN [err |-> "IndexError"]
       ELSE [err |-> "none", embedding |-> ds.embeddings[ie],
             label |-> ds.labels[il]]

\* ------------------------------------------------------------- DataLoader
DataLoader(dataset, bs, shuffle) ==
  [dataset |-> dataset, batch_size |-> bs, shuffle |-> shuffle]

\* len(dataloader): ceil(N / batch_size)
LoaderLen(dl) ==
  (DatasetLen(dl.dataset) + dl.batch_size - 1) \div dl.batch_size

\* the index orders one pass may use: 0..N-1, or any permutation of it
Orders(dl) ==
  LET n == DatasetLen(dl.dataset)
  IN IF dl.shuffle
       THEN {o \in [1..n -> 0..(n - 1)] : \A i, j \in 1..n : o[i] = o[j] => i = j}
       ELSE {Tup([i \in 1..n |-> i - 1])}

RECURSIVE ChunksDropLast(_, _)
ChunksDropLast(order, bs) ==
  IF Len(order) < bs THEN <<>>
  ELSE <<SubSeq(order, 1, bs)>>
         \o ChunksDropLast(SubSeq(order, bs + 1, Len(order)), bs)

\* the batch sampler: consecutive groups of bs indices, the last one shorter
RECURSIVE Chunks(_, _)
Chunks(order, bs) ==
  IF Len(order) = 0 THEN <<>>
  ELSE IF Len(order) <= bs THEN <<order>>
  ELSE <<SubSeq(order, 1, bs)>> \o Chunks(SubSeq(order, bs + 1, Len(order)), bs)

\* fetch and collate one batch of indices: every item is read through
\* __getitem__; stacking needs embeddings of one length
Fetch(ds, chunk) ==
  LET items == Tup([s \in 1..Len(chunk) |-> GetItem(ds, chunk[s])])
  IN IF \E s \in 1..Len(chunk) : items[s].err # "none"
       THEN [err |-> "IndexError"]
     ELSE IF \E s, t \in 1..Len(chunk) :
               Len(items[s].embedding.v) # Len(items[t].embedding.v)
       THEN [err |-> "RuntimeError"]
     ELSE [err |-> "none",
           idx |-> chunk,
           embeddings |-> Tup([s \in 1..Len(chunk) |-> items[s].embedding]),
           labels |-> Tup([s \in 1..Len(chunk) |-> items[s].label])]

\* ----------------------------------------------------- SentimentClassifier
Relu(x) == IF x > 0 THEN x ELSE 0

\* nn.Dropout on one activation: identity in evaluation mode; in training
\* mode the unit is kept (keep = 1) and rescaled, or zeroed (keep = 0)
Dropout(x, training, keep) == IF training THEN x * keep * DropScale ELSE x

\* dropout masks for a batch of n samples
Masks(n, training) ==
  IF training THEN [1..n -> [1..hidden_dim -> {0, 1}]]
  ELSE {Tup([s \in 1..n |-> Tup([j \in 1..hidden_dim |-> 1])])}

\* SentimentClassifier.forward for one row of the batch
ForwardOne(p, x, training, keep) ==
  LET pre == Tup([j \in 1..hidden_dim |-> Dot(p.W1[j], x.v) + p.b1[j]])
      h == Tup([j \in 1..hidden_dim |-> Dropout(Relu(pre[j]), training, keep[j])])
  IN [pre |-> pre, h |-> h,
      logits |-> Tup([k \in 1..output_dim |-> Dot(p.W2[k], h) + p.b2[k]]),
      nan |-> p.nan \/ x.nan]

forward(p, X, training, mask) ==
  Tup([s \in 1..Len(X) |-> ForwardOne(p, X[s], training, mask[s])])

RECURSIVE MaxSeq(_)
MaxSeq(s) == IF Len(s) = 1 THEN s[1] ELSE Max2(Head(s), MaxSeq(Tail(s)))

ArgmaxOneBased(row) ==
  IF row.nan THEN 1
  ELSE CHOOSE k \in 1..Len(row.logits) :
         /\ row.logits[k] = MaxSeq(row.logits)
         /\ \A m \in 1..(k - 1) : row.logits[m] < row.logits[k]

\* torch.max(predictions, 1) indices for one row: the lowest class index
\* holding the maximum (a non-finite row reports its first entry)
Argmax(row) ==
  IF row.nan THEN 0
  ELSE (CHOOSE k \in 1..Len(row.logits) :
          /\ row.logits[k] = MaxSeq(row.logits)
          /\ \A m \in 1..(k - 1) : row.logits[m] < row.logits[k]) - 1

CorrectCount(predictions, labels) ==
  Cardinality({s \in 1..Len(labels) : Argmax(predictions[s]) = labels[s]})

calculate_accuracyCount(predictions, labels) ==
  Frac(CorrectCount(predictions, labels), 1)

calculate_accuracy(predictions, labels) ==
  Frac(CorrectCount(predictions, labels), Len(labels))

\* nn.CrossEntropyLoss, mean over the batch; a class index outside
\* 0..output_dim-1 raises
criterion(predictions, labels) ==
  IF \E s \in 1..Len(labels) : labels[s] \notin 0..(output_dim - 1)
    THEN [err |-> "IndexError", loss |-> NaN]
  ELSE IF \E s \in 1..Len(labels) : predictions[s].nan
    THEN [err |-> "none", loss |-> NaN]
  ELSE [err |-> "none",
        loss |-> Frac(SumSeq(Tup([s \in 1..Len(labels) |->
                        MaxSeq(predictions[s].logits)
                          - predictions[s].logits[labels[s] + 1]])),
                      Len(labels))]

\* ----------------------------------------------------- gradients and Adam
\* one element of an elementwise operation on two parameter-shaped tensors
Elem(op, x, y) ==
  CASE op = "add" -> x + y
    [] op = "step" -> x - Sign(y)
    [] op = "zero" -> 0

PZipFinite(a, b, op) ==
  [W1 |-> Tup([j \in DOMAIN a.W1 |->
             Tup([i \in DOMAIN a.W1[j] |-> Elem(op, a.W1[j][i], b.W1[j][i])])]),
   b1 |-> Tup([j \in DOMAIN a.b1 |-> Elem(op, a.b1[j], b.b1[j])]),
   W2 |-> Tup([k \in DOMAIN a.W2 |->
             Tup([j \in DOMAIN a.W2[k] |-> Elem(op, a.W2[k][j], b.W2[k][j])])]),
   b2 |-> Tup([k \in DOMAIN a.b2 |-> Elem(op, a.b2[k], b.b2[k])]),
   nan |-> FALSE]

\* a tensor of the shape of a whose elements are all non-finite
AllNaN(a) == [PZipFinite(a, a, "zero") EXCEPT !.nan = TRUE]

\* elementwise op; a non-finite operand makes every element non-finite
PZip(a, b, op) ==
  IF a.nan \/ b.nan THEN AllNaN(a) ELSE PZipFinite(a, b, op)

PAdd(a, b) == PZip(a, b, "add")

\* the gradient of a finite batch loss
FiniteGradient(p, X, labels, predictions, training, mask) ==
  LET n == Len(X)
      dz == Tup([s \in 1..n |-> Tup([k \in 1..output_dim |->
               (IF Argmax(predictions[s]) = k - 1 THEN 1 ELSE 0)
                 - (IF labels[s] = k - 1 THEN 1 ELSE 0)])])
      dh == Tup([s \in 1..n |-> Tup([j \in 1..hidden_dim |->
               SumSeq(Tup([k \in 1..output_dim |-> dz[s][k] * p.W2[k][j]]))])])
      dpre == Tup([s \in 1..n |-> Tup([j \in 1..hidden_dim |->
                 IF predictions[s].pre[j] > 0
                   THEN Dropout(dh[s][j], training, mask[s][j]) ELSE 0])])
  IN [W1 |-> Tup([j \in 1..hidden_dim |-> Tup([i \in DOMAIN p.W1[j] |->
                SumSeq(Tup([s \in 1..n |-> dpre[s][j] * X[s].v[i]]))])]),
      b1 |-> Tup([j \in 1..hidden_dim |-> SumSeq(Tup([s \in 1..n |-> dpre[s][j]]))]),
      W2 |-> Tup([k \in 1..output_dim |-> Tup([j \in 1..hidden_dim |->
                SumSeq(Tup([s \in 1..n |-> dz[s][k] * predictions[s].h[j]]))])]),
      b2 |-> Tup([k \in 1..output_dim |-> SumSeq(Tup([s \in 1..n |-> dz[s][k]]))]),
      nan |-> FALSE]

zero_gradSkipped(g) == g

\* optimizer.zero_grad(): the accumulated gradient of every parameter is reset
zero_grad(g) == PZipFinite(g, g, "zero")

\* loss.backward(): the gradient of the batch loss w.r.t. every parameter
Gradient(p, X, labels, predictions, training, mask, loss) ==
  IF IsNaN(loss)
    THEN AllNaN(p)
    ELSE FiniteGradient(p, X, labels, predictions, training, mask)

\* optimizer.step(): first moment, then one unit step against its sign
AdamStep(p, opt, g) ==
  LET m == PAdd(opt.exp_avg, g)
  IN [params |-> PZip(p, m, "step"),
      opt |-> [step |-> opt.step + 1, exp_avg |-> m]]

\* ------------------------------------------------------ text preprocessing
\* A text is a sequence of whitespace-separated tokens; an input that is no
\* string at all is NotAString.
NotAString == [str |-> FALSE, words |-> <<>>]
Text(words) == [str |-> TRUE, words |-> words]

\* str.lower() on a token
Lower(w) ==
  CASE w = "Great" -> "great"
    [] w = "The" -> "the"
    [] w = "BAD!" -> "bad!"
    [] OTHER -> w

\* re.sub(r'http\S+|www.\S+', '', text) on a token
StripUrl(w) == IF w \in {"http://t.co/x", "www.x.org"} THEN "" ELSE w

\* removal of string.punctuation from a token
StripPunct(w) ==
  CASE w = "bad!" -> "bad"
    [] w = "!!" -> ""
    [] OTHER -> w

stop_words == {"the", "is"}

RECURSIVE Filter(_, _)
Filter(ws, drop) ==
  IF ws = <<>> THEN <<>>
  ELSE IF Head(ws) \in drop THEN Filter(Tail(ws), drop)
  ELSE <<Head(ws)>> \o Filter(Tail(ws), drop)

Blank == <<" ">>

\* preprocess_text_st: the remaining words (joined by single blanks), or the
\* one-blank string for an input that is no string
preprocess_text_st(text) ==
  IF text.str
    THEN LET cleaned == Tup([i \in 1..Len(text.words) |->
                           StripPunct(StripUrl(Lower(text.words[i])))])
         IN Filter(Filter(cleaned, {""}), stop_words)
    ELSE Blank

\* sentence_transformer_model.encode: a fixed function of the processed text
Encode(processed) ==
  [v |-> <<IF \E i \in 1..Len(processed) : processed[i] = "great" THEN 1 ELSE 0,
           IF \E i \in 1..Len(processed) : processed[i] = "bad" THEN 1 ELSE 0>>,
   nan |-> FALSE]

Sentences ==
  {NotAString, Text(<<"The", "Great", "http://t.co/x">>),
   Text(<<"is", "BAD!", "!!">>)}

\* ------------------------------------------------------------- the corpus
E(v, nan) == [v |-> v, nan |-> nan]

\* sentence embeddings and encoded sentiments; entry 1 holds a non-finite
\* embedding, entry 5 a class index outside the label table
CorpusX ==
  <<E(<<1, 0>>, TRUE), E(<<1, 0>>, FALSE), E(<<0, 1>>, FALSE),
    E(<<1, 1>>, FALSE), E(<<0, 1>>, FALSE)>>
CorpusY == <<0, 2, 0, 1, 5>>

\* rows lo..hi of the corpus (none when lo > hi)
Rows(lo, hi) ==
  SentimentDataset(SubSeq(CorpusX, lo, hi), SubSeq(CorpusY, lo, hi))

\* train_test_split: two disjoint runs of rows of the corpus, the train run
\* of at most MaxN rows and the test run of at most MaxTestN rows, as
\* <<train lo, train hi, test lo, test hi>>
Splits ==
  LET n == Len(CorpusX)
      Runs(max) == {<<lo, hi>> \in (1..(n + 1)) \X (0..n) :
                      /\ hi - lo + 1 <= max
                      /\ (hi >= lo \/ (lo = 1 /\ hi = 0))}
  IN {<<a, b>> \in Runs(MaxN) \X Runs(MaxTestN) :
        a[2] < b[1] \/ b[2] < a[1] \/ a[2] < a[1] \/ b[2] < b[1]}

\* ------------------------------------------------------------- the model
\* SentimentClassifier(embedding_dim, output_dim, hidden_dim, dropout_prob)
InitParams ==
  [W1 |-> Tup([j \in 1..hidden_dim |-> <<1, 1>>]),
   b1 |-> Tup([j \in 1..hidden_dim |-> 0]),
   W2 |-> Tup([k \in 1..output_dim |-> Tup([j \in 1..hidden_dim |-> k - 2])]),
   b2 |-> Tup([k \in 1..output_dim |-> IF k = 1 THEN 1 ELSE 0]),
   nan |-> FALSE]

ZeroParams == PZipFinite(InitParams, InitParams, "zero")

\* ------------------------------------------------------------------ state
VARIABLES
  training,        \* model.training: TRUE = TRAINING, FALSE = EVALUATION
  params,          \* fc1 / fc2 weights and biases
  grads,           \* the accumulated .grad of the parameters
  optimizer,       \* Adam state: step count and first moment
  train_dataset, test_dataset, batch_size,
  pc,              \* "idle", "loop_head", "train", "loop_eval", "evaluate", "loop_print"
  caller,          \* who called evaluate: "loop" or "call"
  epoch,           \* the loop variable of the training loop (0-based)
  it,              \* the data loader iterator: index batches still to come
  epoch_loss, epoch_acc,
  train_res, test_res,   \* (loss, acc) last returned by train / evaluate
  out,             \* the records printed by the running training loop
  error,           \* the exception that ended the last top-level run
  predicted,       \* the last predict_sentiment call: its input kind and result
  cells,           \* top-level runs started
  loops,           \* runs of the training-loop cell started
  fwd,             \* history: (function, mode flag) of the last forward pass
  calls,           \* history: the finished evaluate and predict_sentiment calls
  log,             \* history: the events of the running training loop
  blog,            \* history: the batches of the running train / evaluate
  \* the dataset / data loader exercised on their own
  d_emb, d_lab,    \* the collections handed to SentimentDataset
  d_ds,            \* the constructed dataset
  d_pc,            \* "new", "ready", "got", "iter", "done", "failed"
  d_idx, d_item,   \* the last __getitem__ call and what it gave
  d_loader,        \* the DataLoader of the running pass
  d_order,         \* the index order the sampler drew for the pass
  d_todo,          \* index batches still to come
  d_batches,       \* the batches yielded so far
  d_err            \* the exception raised, or "none"

mvars ==
  <<training, params, grads, optimizer, train_dataset, test_dataset,
    batch_size, pc, caller, epoch, it, epoch_loss, epoch_acc, train_res,
    test_res, out, error, predicted, cells, loops, fwd, calls, log, blog>>

dvars ==
  <<d_emb, d_lab, d_ds, d_pc, d_idx, d_item, d_loader, d_order, d_todo,
    d_batches, d_err>>

vars == <<mvars, dvars>>

train_dataloader_st == DataLoader(train_dataset, batch_size, TRUE)
test_dataloader_st == DataLoader(test_dataset, batch_size, FALSE)

NoDataset == SentimentDataset(<<>>, <<>>)

\* the session state before any cell of section 9 onwards has run
InitSession ==
  /\ training = TRUE
  /\ params = InitParams
  /\ grads = ZeroParams
  /\ optimizer = [step |-> 0, exp_avg |-> ZeroParams]
  /\ batch_size = BatchSize
  /\ pc = "idle"
  /\ caller = "call"
  /\ epoch = 0
  /\ it = <<>>
  /\ epoch_loss = Zero
  /\ epoch_acc = Zero
  /\ train_res = <<>>
  /\ test_res = <<>>
  /\ out = <<>>
  /\ error = "none"
  /\ predicted = <<>>
  /\ cells = 0
  /\ loops = 0
  /\ fwd = <<>>
  /\ calls = <<>>
  /\ log = <<>>
  /\ blog = <<>>

InitLoaderIdle ==
  /\ d_pc = "new"
  /\ d_ds = NoDataset
  /\ d_idx = 0
  /\ d_item = <<>>
  /\ d_loader = DataLoader(NoDataset, 1, FALSE)
  /\ d_order = <<>>
  /\ d_todo = <<>>
  /\ d_batches = <<>>
  /\ d_err = "none"

Init ==
  /\ InitSession
  /\ \E sp \in Splits :
       /\ train_dataset = Rows(sp[1][1], sp[1][2])
       /\ test_dataset = Rows(sp[2][1], sp[2][2])
  /\ d_emb = <<>>
  /\ d_lab = <<>>
  /\ InitLoaderIdle

data == <<train_dataset, test_dataset, batch_size, dvars>>
model_state == <<params, grads, optimizer>>
history == <<fwd, calls, blog>>
counters == <<cells, loops>>

\* an exception leaves the running cell
Raise(e) == /\ error' = e
            /\ pc' = "idle"

\* ------------------------------------------------------ train and evaluate
\* One iteration of the for loop of train (update = TRUE: zero_grad,
\* backward onto the accumulated gradient, step) or of evaluate
\* (update = FALSE).
ProcessBatch(fn, dataset, update) ==
  /\ it # <<>>
  /\ LET b == Fetch(dataset, Head(it)) IN
     \E mask \in Masks(Len(Head(it)), training) :
     \E predictions \in {forward(params, b.embeddings, training, mask)} :
     \E l \in {criterion(predictions, b.labels)} :
     \E g \in {IF update /\ l.err = "none"
                 THEN PAdd(zero_grad(grads),
                           Gradient(params, b.embeddings, b.labels,
                                    predictions, training, mask, l.loss))
                 ELSE zero_grad(grads)} :
       LET acc == calculate_accuracy(predictions, b.labels)
           upd == AdamStep(params, optimizer, g)
       IN /\ fwd' = <<fn, training>>
          /\ IF l.err # "none"
               THEN /\ Raise(l.err)
                    /\ grads' = IF update THEN g ELSE grads
                    /\ UNCHANGED <<params, optimizer, epoch_loss, epoch_acc,
                                   it, blog>>
               ELSE /\ grads' = IF update THEN g ELSE grads
                    /\ params' = IF update THEN upd.params ELSE params
                    /\ optimizer' = IF update THEN upd.opt ELSE optimizer
                    /\ epoch_loss' = FAdd(epoch_loss, l.loss)
                    /\ epoch_acc' = FAdd(epoch_acc, acc)
                    /\ it' = Tail(it)
                    /\ blog' = Append(blog,
                         [loss |-> l.loss, acc |-> acc, size |-> Len(b.labels),
                          correct |-> CorrectCount(predictions, b.labels)])
                    /\ UNCHANGED <<pc, error>>
  /\ UNCHANGED <<training, data, caller, epoch, train_res, test_res, out,
                 predicted, counters, calls, log>>

TrainEnterKeepsMode ==
  /\ UNCHANGED training
  /\ epoch_loss' = Zero
  /\ epoch_acc' = Zero
  /\ \E o \in Orders(train_dataloader_st) : it' = Chunks(o, batch_size)
  /\ blog' = <<>>
  /\ pc' = "train"

\* entry of train: model.train(), the accumulators, iter(dataloader)
TrainEnter ==
  /\ training' = TRUE
  /\ epoch_loss' = Zero
  /\ epoch_acc' = Zero
  /\ \E o \in Orders(train_dataloader_st) : it' = Chunks(o, batch_size)
  /\ blog' = <<>>
  /\ pc' = "train"

\* one iteration of the for loop of train
TrainBatch ==
  /\ pc = "train"
  /\ ProcessBatch("train", train_dataset, TRUE)

\* the return statement of train
TrainReturn ==
  /\ pc = "train"
  /\ it = <<>>
  /\ IF LoaderLen(train_dataloader_st) = 0
       THEN /\ Raise("ZeroDivisionError")
            /\ UNCHANGED <<train_res, log>>
       ELSE /\ train_res' =
                 <<FDivInt(epoch_loss, LoaderLen(train_dataloader_st)),
                   FDivInt(epoch_acc, LoaderLen(train_dataloader_st))>>
            /\ log' = Append(log, <<"train_done", epoch + 1>>)
            /\ pc' = "loop_eval"
            /\ UNCHANGED error
  /\ UNCHANGED <<training, model_state, data, caller, epoch, it, epoch_loss,
                 epoch_acc, test_res, out, predicted, counters, history>>

EvaluateEnterKeepsMode ==
  /\ UNCHANGED training
  /\ epoch_loss' = Zero
  /\ epoch_acc' = Zero
  /\ \E o \in Orders(test_dataloader_st) : it' = Chunks(o, batch_size)
  /\ blog' = <<>>
  /\ pc' = "evaluate"

EvaluateEnterKeepsSums ==
  /\ training' = FALSE
  /\ UNCHANGED <<epoch_loss, epoch_acc>>
  /\ \E o \in Orders(test_dataloader_st) : it' = Chunks(o, batch_size)
  /\ blog' = <<>>
  /\ pc' = "evaluate"

\* entry of evaluate: model.eval(), the accumulators, iter(dataloader)
EvaluateEnter ==
  /\ training' = FALSE
  /\ epoch_loss' = Zero
  /\ epoch_acc' = Zero
  /\ \E o \in Orders(test_dataloader_st) : it' = Chunks(o, batch_size)
  /\ blog' = <<>>
  /\ pc' = "evaluate"

EvaluateBatchWithStep ==
  /\ pc = "evaluate"
  /\ ProcessBatch("evaluate", test_dataset, TRUE)

\* one iteration of the for loop of evaluate (under torch.no_grad())
EvaluateBatch ==
  /\ pc = "evaluate"
  /\ ProcessBatch("evaluate", test_dataset, FALSE)

EvaluateReturnZeroWhenEmpty ==
  /\ pc = "evaluate"
  /\ it = <<>>
  /\ LET n == Max2(1, LoaderLen(test_dataloader_st))
         r == <<FDivInt(epoch_loss, n), FDivInt(epoch_acc, n)>>
     IN /\ test_res' = r
        /\ calls' = Append(calls, [fn |-> "evaluate", params |-> params,
                                   result |-> r, batches |-> blog])
        /\ IF caller = "loop"
             THEN /\ log' = Append(log, <<"evaluate_done", epoch + 1>>)
                  /\ pc' = "loop_print"
             ELSE /\ pc' = "idle"
                  /\ UNCHANGED log
        /\ UNCHANGED error
  /\ UNCHANGED <<training, model_state, data, caller, epoch, it, epoch_loss,
                 epoch_acc, train_res, out, predicted, counters, fwd, blog>>

\* the return statement of evaluate
EvaluateReturn ==
  /\ pc = "evaluate"
  /\ it = <<>>
  /\ IF LoaderLen(test_dataloader_st) = 0
       THEN /\ Raise("ZeroDivisionError")
            /\ UNCHANGED <<test_res, log, calls>>
       ELSE LET r == <<FDivInt(epoch_loss, LoaderLen(test_dataloader_st)),
                       FDivInt(epoch_acc, LoaderLen(test_dataloader_st))>>
            IN /\ test_res' = r
               /\ calls' = Append(calls, [fn |-> "evaluate", params |-> params,
                                          result |-> r, batches |-> blog])
               /\ IF caller = "loop"
                    THEN /\ log' = Append(log, <<"evaluate_done", epoch + 1>>)
                         /\ pc' = "loop_print"
                    ELSE /\ pc' = "idle"
                         /\ UNCHANGED log
               /\ UNCHANGED error
  /\ UNCHANGED <<training, model_state, data, caller, epoch, it, epoch_loss,
                 epoch_acc, train_res, out, predicted, counters, fwd, blog>>

\* ---------------------------------------------------------- training loop
\* the training-loop cell is run (once in a session)
RunTrainingLoop ==
  /\ pc = "idle"
  /\ cells < MaxCells
  /\ loops = 0
  /\ cells' = cells + 1
  /\ loops' = loops + 1
  /\ pc' = "loop_head"
  /\ epoch' = 0
  /\ out' = <<>>
  /\ log' = <<>>
  /\ error' = "none"
  /\ UNCHANGED <<training, model_state, data, caller, it, epoch_loss,
                 epoch_acc, train_res, test_res, predicted, history>>

\* for epoch in range(num_epochs): the next epoch calls train
LoopCallTrain ==
  /\ pc = "loop_head"
  /\ epoch < num_epochs
  /\ TrainEnter
  /\ log' = Append(log, <<"train", epoch + 1>>)
  /\ UNCHANGED <<model_state, data, caller, epoch, train_res, test_res, out,
                 error, predicted, counters, fwd, calls>>

\* range(num_epochs) is exhausted: the cell ends
LoopExit ==
  /\ pc = "loop_head"
  /\ epoch >= num_epochs
  /\ pc' = "idle"
  /\ log' = Append(log, <<"exit", epoch>>)
  /\ UNCHANGED <<training, model_state, data, caller, epoch, it, epoch_loss,
                 epoch_acc, train_res, test_res, out, error, predicted,
                 counters, history>>

\* test_loss, test_acc = evaluate(model, test_dataloader_st, criterion, device)
LoopCallEvaluate ==
  /\ pc = "loop_eval"
  /\ EvaluateEnter
  /\ caller' = "loop"
  /\ log' = Append(log, <<"evaluate", epoch + 1>>)
  /\ UNCHANGED <<model_state, data, epoch, train_res, test_res, out, error,
                 predicted, counters, fwd, calls>>

LoopPrintZeroBased ==
  /\ pc = "loop_print"
  /\ out' = Append(out, [epoch |-> epoch,
                         train_loss |-> train_res[1], train_acc |-> train_res[2],
                         eval_loss |-> test_res[1], eval_acc |-> test_res[2]])
  /\ log' = Append(log, <<"record", epoch + 1>>)
  /\ epoch' = epoch + 1
  /\ pc' = "loop_head"
  /\ UNCHANGED <<training, model_state, data, caller, it, epoch_loss,
                 epoch_acc, train_res, test_res, error, predicted, counters,
                 history>>

\* print(f'Epoch: {epoch+1:02}, ...'), then the next round of the for loop
LoopPrint ==
  /\ pc = "loop_print"
  /\ out' = Append(out, [epoch |-> epoch + 1,
                         train_loss |-> train_res[1], train_acc |-> train_res[2],
                         eval_loss |-> test_res[1], eval_acc |-> test_res[2]])
  /\ log' = Append(log, <<"record", epoch + 1>>)
  /\ epoch' = epoch + 1
  /\ pc' = "loop_head"
  /\ UNCHANGED <<training, model_state, data, caller, it, epoch_loss,
                 epoch_acc, train_res, test_res, error, predicted, counters,
                 history>>

\* ------------------------------------------------------- other top-level runs
\* a caller evaluates the model on the test loader
CallEvaluate ==
  /\ pc = "idle"
  /\ cells < MaxCells
  /\ cells' = cells + 1
  /\ EvaluateEnter
  /\ caller' = "call"
  /\ error' = "none"
  /\ UNCHANGED <<model_state, data, epoch, train_res, test_res, out,
                 predicted, loops, fwd, calls, log>>

\* the names the cells of sections 1 to 9 bind at top level, as far as the
\* training loop and the final evaluation cell read them
Globals ==
  {"model", "device", "train_dataloader_st", "test_dataloader_st",
   "criterion", "optimizer", "num_epochs"}

\* the final evaluation cell: evaluate(model, test_dataloader_st,
\* criterion_st, device); the argument list is evaluated before evaluate is
\* entered, and a name that is not bound raises NameError
FinalEvaluation ==
  /\ pc = "idle"
  /\ cells < MaxCells
  /\ cells' = cells + 1
  /\ IF {"model", "test_dataloader_st", "criterion_st", "device"} \subseteq Globals
       THEN /\ EvaluateEnter
            /\ caller' = "call"
            /\ error' = "none"
       ELSE /\ error' = "NameError"
            /\ UNCHANGED <<training, pc, caller, it, epoch_loss, epoch_acc,
                           blog>>
  /\ UNCHANGED <<model_state, data, epoch, train_res, test_res, out,
                 predicted, loops, fwd, calls, log>>

\* predict_sentiment(model, sentence_model, sentence, device, sentiment_map_inv)
PredictSentiment ==
  /\ pc = "idle"
  /\ cells < MaxCells
  /\ cells' = cells + 1
  /\ training' = FALSE
  /\ \E sentence \in Sentences :
     \E mask \in Masks(1, training') :
       LET processed_sentence == preprocess_text_st(sentence)
           embedding == Encode(processed_sentence)
           prediction == forward(params, <<embedding>>, training', mask)
           predicted_sentiment_index == Argmax(prediction[1])
       IN IF predicted_sentiment_index \in DOMAIN sentiment_map_inv
            THEN /\ predicted' =
                      [str |-> sentence.str,
                       index |-> predicted_sentiment_index,
                       sentiment |-> sentiment_map_inv[predicted_sentiment_index]]
                 /\ calls' = Append(calls, [fn |-> "predict_sentiment"])
                 /\ error' = "none"
            ELSE /\ error' = "KeyError"
                 /\ UNCHANGED <<predicted, calls>>
  /\ fwd' = <<"predict_sentiment", training'>>
  /\ UNCHANGED <<model_state, data, pc, caller, epoch, it, epoch_loss,
                 epoch_acc, train_res, test_res, out, loops, log, blog>>

Next ==
  \/ RunTrainingLoop
  \/ LoopCallTrain
  \/ TrainBatch
  \/ TrainReturn
  \/ LoopCallEvaluate
  \/ EvaluateBatch
  \/ EvaluateReturn
  \/ LoopPrint
  \/ LoopExit
  \/ CallEvaluate
  \/ FinalEvaluation
  \/ PredictSentiment

Spec == Init /\ [][Next]_vars

\* ------------------------------------- the dataset and the loader on their own
embedding_dim == Len(CorpusX[1].v)

\* embeddings a caller may hand over; the last has a length other than
\* embedding_dim
EmbChoices == {E(<<1, 0>>, FALSE), E(<<0, 1>>, FALSE), E(<<1>>, FALSE)}
LabelChoices == {0, 2, 5}

SeqsUpTo(S, n) == UNION {[1..k -> S] : k \in 0..n}

BatchSizes == (1..MaxBS) \cup {RefBatchSize}

InitData ==
  /\ InitSession
  /\ train_dataset = NoDataset
  /\ test_dataset = NoDataset
  /\ d_emb \in SeqsUpTo(EmbChoices, MaxLen)
  /\ d_lab \in SeqsUpTo(LabelChoices, MaxLen)
  /\ Len(d_emb) - Len(d_lab) \in {-1, 0, 1}
  /\ InitLoaderIdle

\* SentimentDataset(embeddings, labels)
Construct ==
  /\ d_pc = "new"
  /\ d_ds' = SentimentDataset(d_emb, d_lab)
  /\ d_pc' = "ready"
  /\ UNCHANGED <<mvars, d_emb, d_lab, d_idx, d_item, d_loader, d_order,
                 d_todo, d_batches, d_err>>

\* dataset[idx]
GetItemCall ==
  /\ d_pc = "ready"
  /\ \E idx \in (-(MaxLen + 1))..(MaxLen + 1) :
       /\ d_idx' = idx
       /\ d_item' = GetItem(d_ds, idx)
       /\ d_err' = GetItem(d_ds, idx).err
  /\ d_pc' = "got"
  /\ UNCHANGED <<mvars, d_emb, d_lab, d_ds, d_loader, d_order, d_todo,
                 d_batches>>

\* iter(DataLoader(dataset, batch_size=bs, shuffle=sh)): the sampler draws
\* the order of the pass
LoaderIter ==
  /\ d_pc = "ready"
  /\ \E bs \in BatchSizes, sh \in BOOLEAN :
       /\ d_loader' = DataLoader(d_ds, bs, sh)
       /\ \E o \in Orders(d_loader') :
            /\ d_order' = o
            /\ d_todo' = Chunks(o, bs)
  /\ d_batches' = <<>>
  /\ d_pc' = "iter"
  /\ UNCHANGED <<mvars, d_emb, d_lab, d_ds, d_idx, d_item, d_err>>

\* next(iterator): the next batch
LoaderNext ==
  /\ d_pc = "iter"
  /\ d_todo # <<>>
  /\ LET b == Fetch(d_ds, Head(d_todo))
     IN IF b.err # "none"
          THEN /\ d_err' = b.err
               /\ d_pc' = "failed"
               /\ UNCHANGED <<d_todo, d_batches>>
          ELSE /\ d_batches' = Append(d_batches, b)
               /\ d_todo' = Tail(d_todo)
               /\ UNCHANGED <<d_pc, d_err>>
  /\ UNCHANGED <<mvars, d_emb, d_lab, d_ds, d_idx, d_item, d_loader, d_order>>

\* next(iterator) at the end of the pass: StopIteration
LoaderStop ==
  /\ d_pc = "iter"
  /\ d_todo = <<>>
  /\ d_pc' = "done"
  /\ UNCHANGED <<mvars, d_emb, d_lab, d_ds, d_idx, d_item, d_loader, d_order,
                 d_todo, d_batches, d_err>>

NextData ==
  \/ Construct
  \/ GetItemCall
  \/ LoaderIter
  \/ LoaderNext
  \/ LoaderStop

SpecData == InitData /\ [][NextData]_vars

\* ===================================================== claims on the session
\* C1: every forward pass inside train runs with the mode flag TRAINING, and
\* every forward pass inside evaluate or predict_sentiment runs with the mode
\* flag EVALUATION, whatever mode the previous call left behind.
C1_ModeSetByEachCall ==
  fwd # <<>> =>
    /\ fwd[1] = "train" => fwd[2] = TRUE
    /\ fwd[1] \in {"evaluate", "predict_sentiment"} => fwd[2] = FALSE

\* a forward pass of train in the second epoch, entered with the EVALUATION
\* flag that the evaluate of the first epoch left behind
C1_Witness ==
  /\ fwd = <<"train", TRUE>>
  /\ pc = "train"
  /\ epoch = 1
  /\ Len(calls) > 0

\* C2: a step that changes a model parameter or the optimizer state is an
\* iteration of the loop of train; evaluate and predict_sentiment leave both
\* exactly as they were.
C2_OnlyTrainWrites ==
  [][(params' # params \/ optimizer' # optimizer) =>
       (pc = "train" /\ fwd' = <<"train", training>>)]_vars

\* evaluate and predict_sentiment have both run on a model that train has
\* already updated
C2_Witness ==
  /\ optimizer.step > 0
  /\ \E i \in 1..Len(calls) : calls[i].fn = "evaluate" /\ calls[i].params = params
  /\ \E i \in 1..Len(calls) : calls[i].fn = "predict_sentiment"
  /\ pc = "idle"

\* the events of one training loop, in order
ExpectedEvent(i) ==
  IF i = 5 * num_epochs + 1 THEN <<"exit", num_epochs>>
  ELSE <<(<<"train", "train_done", "evaluate", "evaluate_done", "record">>)
           [((i - 1) % 5) + 1],
         ((i - 1) \div 5) + 1>>

\* C3: the loop runs epochs 1..E in order; each epoch runs train, then
\* evaluate, then emits one record carrying the epoch number and the four
\* metrics just returned; a run that completes has emitted exactly E records.
C3_LoopOrder ==
  /\ Len(log) <= 5 * num_epochs + 1
  /\ \A i \in 1..Len(log) : log[i] = ExpectedEvent(i)
  /\ Len(out) = Cardinality({i \in 1..Len(log) : log[i][1] = "record"})
  /\ \A i \in 1..Len(out) : out[i].epoch = i
  /\ (pc = "loop_head" /\ epoch > 0) =>
       out[epoch] = [epoch |-> epoch,
                     train_loss |-> train_res[1], train_acc |-> train_res[2],
                     eval_loss |-> test_res[1], eval_acc |-> test_res[2]]
  /\ (Len(log) > 0 /\ log[Len(log)][1] = "exit") => Len(out) = num_epochs

\* a training loop that ran to completion
C3_Witness ==
  /\ Len(log) = 5 * num_epochs + 1
  /\ Len(out) = num_epochs
  /\ pc = "idle"

\* C4 (as claimed): a non-finite batch loss is never added to the running
\* loss sum of train, and train returns no epoch average after one.
C4_NonFiniteLossAborts ==
  /\ pc = "train" => ~IsNaN(epoch_loss)
  /\ train_res # <<>> => ~IsNaN(train_res[1])

\* C5: two finished evaluate calls on the same parameters (and the same test
\* set) returned the same (loss, accuracy), whatever ran between them.
C5_EvaluateDeterministic ==
  \A i, j \in 1..Len(calls) :
    (calls[i].fn = "evaluate" /\ calls[j].fn = "evaluate"
       /\ calls[i].params = calls[j].params)
      => calls[i].result = calls[j].result

\* evaluate, then predict_sentiment, then evaluate again on the same
\* parameters, over a test set of more than one batch
C5_Witness ==
  /\ Len(calls) = 3
  /\ calls[1].fn = "evaluate"
  /\ calls[2].fn = "predict_sentiment"
  /\ calls[3].fn = "evaluate"
  /\ calls[1].params = calls[3].params
  /\ Len(calls[3].batches) = 2

\* C7: predict_sentiment returns one of the three class names for every
\* input: the decoded index is in {0,1,2}, the lookup never fails, and the
\* index-to-name table inverts a bijective name-to-index table.
C7_PredictInLabelSet ==
  /\ error # "KeyError"
  /\ predicted # <<>> =>
       /\ predicted.index \in {0, 1, 2}
       /\ predicted.sentiment \in {"negative", "neutral", "positive"}
       /\ sentiment_map[predicted.sentiment] = predicted.index
  /\ \A a, b \in DOMAIN sentiment_map :
       sentiment_map[a] = sentiment_map[b] => a = b
  /\ DOMAIN sentiment_map_inv = {0, 1, 2}

\* predict_sentiment answered an input that is no string, on a model that
\* train has updated
C7_Witness ==
  /\ predicted # <<>>
  /\ predicted.str = FALSE
  /\ optimizer.step > 0
  /\ fwd[1] = "predict_sentiment"

LossesOf(bs) == Tup([i \in 1..Len(bs) |-> bs[i].loss])
AccsOf(bs) == Tup([i \in 1..Len(bs) |-> bs[i].acc])
MeanOf(bs) ==
  <<FDivInt(FSum(LossesOf(bs)), Len(bs)), FDivInt(FSum(AccsOf(bs)), Len(bs))>>

\* C10: inside train and evaluate the accumulators hold the sums over the
\* batches of this call only; a batch's accuracy is (samples whose argmax
\* equals the label) / (size of the batch) and lies in [0,1]; the value
\* returned is (sum of batch losses / batches, sum of batch accuracies /
\* batches), with the accuracy in [0,1].
C10_EpochAverages ==
  /\ pc \in {"train", "evaluate"} =>
       /\ epoch_loss = FSum(LossesOf(blog))
       /\ epoch_acc = FSum(AccsOf(blog))
  /\ \A i \in 1..Len(blog) :
       /\ blog[i].size >= 1
       /\ blog[i].size <= batch_size
       /\ blog[i].correct <= blog[i].size
       /\ blog[i].acc[1] * blog[i].size = blog[i].correct * blog[i].acc[2]
       /\ FLeq(Zero, blog[i].acc) /\ FLeq(blog[i].acc, One)
  /\ pc = "loop_eval" =>
       /\ Len(blog) = LoaderLen(train_dataloader_st)
       /\ train_res = MeanOf(blog)
       /\ FLeq(Zero, train_res[2]) /\ FLeq(train_res[2], One)
  /\ \A i \in 1..Len(calls) : calls[i].fn = "evaluate" =>
       /\ Len(calls[i].batches) = LoaderLen(test_dataloader_st)
       /\ calls[i].result = MeanOf(calls[i].batches)
       /\ FLeq(Zero, calls[i].result[2]) /\ FLeq(calls[i].result[2], One)

\* train returned the averages of an epoch of two batches of different size,
\* in the second epoch
C10_Witness ==
  /\ pc = "loop_eval"
  /\ epoch = 1
  /\ Len(blog) = 2
  /\ blog[1].size # blog[2].size
  /\ ~IsNaN(train_res[1])


\* C11 (as claimed): after a training loop that ran to completion, the final
\* evaluation cell completes: it reaches evaluate with the criterion of the
\* loop and does not end in a NameError.
C11_FinalEvaluationCompletes ==
  (Len(log) > 0 /\ log[Len(log)][1] = "exit") => error # "NameError"

\* the gradients that the batch at the head of the iterator produces on its
\* own under the current parameters, one for each dropout mask
BatchGradients ==
  LET b == Fetch(train_dataset, Head(it))
  IN {Gradient(params, b.embeddings, b.labels,
               forward(params, b.embeddings, TRUE, mask), TRUE, mask,
               criterion(forward(params, b.embeddings, TRUE, mask),
                         b.labels).loss) :
        mask \in Masks(Len(Head(it)), TRUE)}

\* C12: every optimizer step is an iteration of train whose accumulated
\* gradient is the gradient of the current batch alone (nothing is carried
\* over from an earlier batch or epoch), and the step consumes exactly that
\* gradient.
C12_StepUsesBatchGradient ==
  [][optimizer' # optimizer =>
       /\ pc = "train"
       /\ it # <<>>
       /\ grads' \in BatchGradients
       /\ optimizer'.step = optimizer.step + 1
       /\ optimizer'.exp_avg = PAdd(optimizer.exp_avg, grads')
       /\ params' = PZip(params, optimizer'.exp_avg, "step")]_vars

\* the first batch of the second epoch has been stepped with a non-zero
\* gradient after the steps of the first epoch
C12_Witness ==
  /\ pc = "train"
  /\ epoch = 1
  /\ Len(blog) = 1
  /\ optimizer.step >= 2
  /\ ~grads.nan
  /\ grads # ZeroParams

SizesOf(bs) == Tup([i \in 1..Len(bs) |-> bs[i].size])
CorrectsOf(bs) == Tup([i \in 1..Len(bs) |-> bs[i].correct])

\* the fraction of all samples of the batches bs that were classified
\* correctly
OverallAcc(bs) == Frac(SumSeq(CorrectsOf(bs)), SumSeq(SizesOf(bs)))

\* the accuracy r[2] returned over the batches bs of a dataset of n samples
UnweightedMean(bs, r, n) ==
  /\ SumSeq(SizesOf(bs)) = n
  /\ r[2] = FDivInt(FSum(AccsOf(bs)), Len(bs))
  /\ n % batch_size = 0 =>
       /\ \A i \in 1..Len(bs) : bs[i].size = batch_size
       /\ r[2] = OverallAcc(bs)

\* C13: the accuracy that train and evaluate return is the unweighted mean
\* of the accuracies of the batches; when the batch size divides the number
\* of samples it equals the fraction of all samples classified correctly.
C13_UnweightedMean ==
  /\ pc = "loop_eval" =>
       UnweightedMean(blog, train_res, DatasetLen(train_dataset))
  /\ \A i \in 1..Len(calls) : calls[i].fn = "evaluate" =>
       UnweightedMean(calls[i].batches, calls[i].result,
                      DatasetLen(test_dataset))

\* evaluate returned, over a full batch and a short last batch, an accuracy
\* that is not the fraction of all samples classified correctly
C13_Witness ==
  \E i \in 1..Len(calls) :
    /\ calls[i].fn = "evaluate"
    /\ Len(calls[i].batches) = 2
    /\ calls[i].batches[2].size < calls[i].batches[1].size
    /\ calls[i].result[2] # OverallAcc(calls[i].batches)

\* evaluate returned over two full batches
C13_EqualBatches ==
  \E i \in 1..Len(calls) :
    /\ calls[i].fn = "evaluate"
    /\ Len(calls[i].batches) = 2
    /\ calls[i].batches[2].size = calls[i].batches[1].size
    /\ calls[i].result[2] \notin {Zero, One}

\* what train (flag = TRUE) or evaluate (flag = FALSE) does over a data
\* loader of zero batches: the mode flag is set, no batch is processed, and
\* the next step is the failing division, which returns no metrics and
\* leaves the parameters and the optimizer alone
FailsOnDivision(flag) ==
  /\ training = flag
  /\ it = <<>>
  /\ blog = <<>>
  /\ epoch_loss = Zero
  /\ epoch_acc = Zero
  /\ error' = "ZeroDivisionError"
  /\ pc' = "idle"
  /\ UNCHANGED <<training, params, grads, optimizer, train_res, test_res,
                 calls, out>>

\* C14: over a data loader that yields zero batches, train and evaluate set
\* the mode flag, process no batch, update no parameter and then raise on
\* the division by the number of batches instead of returning metrics.
C14_EmptyLoaderFails ==
  [][/\ (pc = "train" /\ LoaderLen(train_dataloader_st) = 0)
          => FailsOnDivision(TRUE)
     /\ (pc = "evaluate" /\ LoaderLen(test_dataloader_st) = 0)
          => FailsOnDivision(FALSE)]_vars

\* the evaluate of the first epoch failed on an empty test set, after train
\* had updated the model
C14_Witness ==
  /\ error = "ZeroDivisionError"
  /\ training = FALSE
  /\ DatasetLen(test_dataset) = 0
  /\ optimizer.step > 0
  /\ log # <<>>
  /\ log[Len(log)] = <<"evaluate", 1>>
  /\ test_res = <<>>
  /\ calls = <<>>

\* the train of the first epoch failed on an empty training set
C14_TrainFailed ==
  /\ error = "ZeroDivisionError"
  /\ training = TRUE
  /\ DatasetLen(train_dataset) = 0
  /\ optimizer.step = 0
  /\ log = << <<"train", 1>> >>
  /\ train_res = <<>>
\* ============================================ claims on dataset and loader
RECURSIVE Flatten(_)
Flatten(ss) == IF ss = <<>> THEN <<>> ELSE Head(ss) \o Flatten(Tail(ss))

YieldedIdx == Flatten(Tup([k \in 1..Len(d_batches) |-> d_batches[k].idx]))
YieldedEmb == Flatten(Tup([k \in 1..Len(d_batches) |-> d_batches[k].embeddings]))
YieldedLab == Flatten(Tup([k \in 1..Len(d_batches) |-> d_batches[k].labels]))

\* C6: a finished pass over N >= 1 samples with batch size B yielded every
\* sample exactly once, in ceil(N/B) batches that all have size B except the
\* last, which has size N mod B (or B when N mod B = 0); without shuffling
\* the batches concatenate to the original sequence, with shuffling to a
\* permutation of it; N = 1 with B = 64 gives one batch of size 1.
C6_PassCoversDataset ==
  LET N == DatasetLen(d_ds)
      B == d_loader.batch_size
      nb == Len(d_batches)
  IN (d_pc = "done" /\ N >= 1 /\ Len(d_lab) = N) =>
       /\ nb * B >= N /\ (nb - 1) * B < N
       /\ \A k \in 1..(nb - 1) : Len(d_batches[k].embeddings) = B
       /\ Len(d_batches[nb].embeddings) = (IF N % B = 0 THEN B ELSE N % B)
       /\ \A k \in 1..nb :
            Len(d_batches[k].labels) = Len(d_batches[k].embeddings)
       /\ Len(YieldedIdx) = N
       /\ \A i \in 0..(N - 1) :
            Cardinality({p \in 1..N : YieldedIdx[p] = i}) = 1
       /\ \A p \in 1..N :
            /\ YieldedEmb[p] = d_emb[YieldedIdx[p] + 1]
            /\ YieldedLab[p] = d_lab[YieldedIdx[p] + 1]
       /\ ~d_loader.shuffle => (YieldedEmb = d_emb /\ YieldedLab = d_lab)
       /\ (N = 1 /\ B = 64) =>
            (nb = 1 /\ Len(d_batches[1].embeddings) = 1)

\* a finished shuffled pass over three samples in batches of two, in an
\* order other than the original one
C6_Witness ==
  /\ d_pc = "done"
  /\ DatasetLen(d_ds) = 3
  /\ Len(d_lab) = 3
  /\ d_loader.batch_size = 2
  /\ d_loader.shuffle
  /\ d_order = <<2, 0, 1>>
  /\ Len(d_batches) = 2

ItemAt(i) ==
  [err |-> "none", embedding |-> d_emb[i + 1], label |-> d_lab[i + 1]]

\* C8 (as claimed): retrieving sample i fails for every i outside [0, N),
\* negative indices included, and gives the i-th pair for i in [0, N).
C8_OutsideRangeFails ==
  (d_pc = "got" /\ Len(d_emb) = Len(d_lab)) =>
     IF 0 <= d_idx /\ d_idx < Len(d_emb)
       THEN d_item = ItemAt(d_idx)
       ELSE d_item.err = "IndexError"

\* C8 (amended): retrieving sample i fails with IndexError for i >= N and
\* for i < -N, gives the i-th pair for i in [0, N), and for -N <= i < 0
\* gives the pair at N + i.
C8_PythonIndexing ==
  LET N == Len(d_emb)
  IN (d_pc = "got" /\ Len(d_emb) = Len(d_lab)) =>
       /\ (d_idx >= N \/ d_idx < -N) => d_item = [err |-> "IndexError"]
       /\ (0 <= d_idx /\ d_idx < N) => d_item = ItemAt(d_idx)
       /\ (-N <= d_idx /\ d_idx < 0) => d_item = ItemAt(N + d_idx)

\* index -1 of a dataset of two samples gave its last sample
C8_Witness ==
  /\ d_pc = "got"
  /\ Len(d_emb) = 2
  /\ Len(d_lab) = 2
  /\ d_idx = -1
  /\ d_item = ItemAt(1)

Malformed(embeddings, labels) ==
  \/ Len(embeddings) # Len(labels)
  \/ \E i \in 1..Len(labels) : labels[i] \notin {0, 1, 2}
  \/ \E i \in 1..Len(embeddings) : Len(embeddings[i].v) # embedding_dim

\* C9 (as claimed): constructing a dataset from a collection with a
\* malformed sample fails with an InputError at construction, and no batch
\* with a label outside {0,1,2} is ever yielded to train or evaluate.
C9_MalformedRejected ==
  /\ (d_pc # "new" /\ Malformed(d_emb, d_lab)) => d_err = "InputError"
  /\ \A k \in 1..Len(d_batches) : \A s \in 1..Len(d_batches[k].labels) :
       d_batches[k].labels[s] \in {0, 1, 2}

====
